---- MODULE Spec2Model ----
(***************************************************************************)
(* Model of podman/errors/exceptions.py: APIError, ContainerError and      *)
(* PodmanConnectionError.  One error object is constructed per behaviour;  *)
(* afterwards its methods are called and the objects it refers to are      *)
(* changed by their owners.                                                *)
(*                                                                         *)
(* Python values: a str is a TLA+ string, an Optional[T] is <<>> (None) or *)
(* <<v>>, a dict is the sequence of its <<key, value>> items in iteration  *)
(* order, a list is a sequence.  An object an error refers to (response,   *)
(* container) is held inside the error's record: it has one alias in the   *)
(* model, so a change by its owner is a change of that field's target.     *)
(***************************************************************************)
EXTENDS Integers, Sequences, FiniteSets, TLC

VARIABLES
    apiErr,        \* Optional APIError: [args, response, explanation]
    containerErr,  \* Optional ContainerError: [args, container, exit_status, command, image, stderr]
    connErr,       \* Optional PodmanConnectionError: [args, environment, host, original_error]
    ctor,          \* history: the arguments the constructor was called with
    renders,       \* history: what the APIError.__str__ calls since the last change returned
    out            \* the last call: [op |-> name, value |-> what it returned]

vars == <<apiErr, containerErr, connErr, ctor, renders, out>>

None == <<>>
Some(v) == <<v>>

\* ---------------------------------------------------------------- bounds
MaxEnv == 2
MaxRenders == 2

\* ---------------------------------------------------------------- inputs
Messages == {"", "boom"}
Explanations == {None, Some(""), Some("no such container")}
StatusCodes == {0, 200, 399, 400, 404, 499, 500, 503, 599, 600}
Reasons == {"Not Found", "Service Unavailable"}
Responses == [status_code : StatusCodes, reason : Reasons]

Containers == [id : {"c1"}, status : {"exited", "removed"}]
ExitStatuses == {-1, 0, 1, 137}
Commands == {"echo hi", "ls"}
Images == {"alpine", "busybox"}
Stderrs == {None, Some(""), Some("boom")}

ConnMessages == {"", "cannot connect"}
Hosts == {None, Some(""), Some("unix:///var/run/podman.sock")}
EnvKeys == {"DOCKER_HOST", "CONTAINER_HOST", "DOCKER_TLS_VERIFY", "CONTAINER_TLS_VERIFY",
            "DOCKER_CERT_PATH", "CONTAINER_CERT_PATH", "UNRELATED", "docker_host"}
EnvValues == {"tcp://x", "y"}
\* The dicts of at most MaxEnv items: their keys are pairwise distinct.
Dicts ==
    UNION { { d \in [1..n -> EnvKeys \X EnvValues] :
                \A i, j \in 1..n : i # j => d[i][1] # d[j][1] } : n \in 0..MaxEnv }
Environments == {None} \cup {Some(d) : d \in Dicts}
OriginalErrors == {None, Some([args |-> <<"">>]), Some([args |-> <<"Connection refused">>])}

\* ---------------------------------------------------------------- Python helpers
\* bool(x) of an Optional[str]: None and "" are falsy.
truthy_str(x) == x # None /\ x[1] # ""

\* bool(x) of an Optional[dict]: None and {} are falsy.
truthy_dict(x) == x # None /\ x[1] # <<>>

\* bool(x) of an Optional[Exception]: every exception object is truthy.
truthy_obj(x) == x # None

Digit(d) ==
    CASE d = 0 -> "0" [] d = 1 -> "1" [] d = 2 -> "2" [] d = 3 -> "3"
      [] d = 4 -> "4" [] d = 5 -> "5" [] d = 6 -> "6" [] d = 7 -> "7"
      [] d = 8 -> "8" [] d = 9 -> "9"

RECURSIVE NatToStr(_)
NatToStr(n) == IF n < 10 THEN Digit(n) ELSE NatToStr(n \div 10) \o Digit(n % 10)

\* f"{i}" of an int.
IntToStr(i) == IF i < 0 THEN "-" \o NatToStr(-i) ELSE NatToStr(i)

\* sep.join(seq)
RECURSIVE Join(_, _)
Join(sep, seq) ==
    IF seq = <<>> THEN ""
    ELSE IF Len(seq) = 1 THEN seq[1]
    ELSE seq[1] \o sep \o Join(sep, Tail(seq))

\* BaseException.__str__ of an exception built with one argument: str(args[0]).
Exception_str(self) == self.args[1]

\* One error object is constructed in a behaviour.
NothingConstructed == apiErr = None /\ containerErr = None /\ connErr = None

\* ---------------------------------------------------------------- APIError
status_code_cached(self) ==
    IF self.response # None THEN Some(ctor.response[1].status_code) ELSE None

status_code(self) ==
    IF self.response # None THEN Some(self.response[1].status_code) ELSE None

\* (self.status_code or 0)
status_code_or_0(self) ==
    LET sc == status_code(self) IN IF sc = None \/ sc[1] = 0 THEN 0 ELSE sc[1]

is_client_error_inclusive(self) ==
    400 <= status_code_or_0(self) /\ status_code_or_0(self) <= 500

is_client_error(self) ==
    400 <= status_code_or_0(self) /\ status_code_or_0(self) < 500

is_server_error(self) ==
    500 <= status_code_or_0(self) /\ status_code_or_0(self) < 600

is_error(self) == is_client_error(self) \/ is_server_error(self)

\* The prefix/suffix steps of APIError.__str__ applied to a working message.
APIError_decorate(self, msg0) ==
    LET msg1 == IF is_client_error(self)
                THEN IntToStr(status_code(self)[1]) \o " Client Error: " \o msg0
                ELSE IF is_server_error(self)
                THEN IntToStr(status_code(self)[1]) \o " Server Error: " \o msg0
                ELSE msg0
    IN  IF truthy_str(self.explanation)
        THEN msg1 \o " (" \o self.explanation[1] \o ")"
        ELSE msg1

APIError_str_keeps_message(self) ==
    APIError_decorate(self,
        IF self.response # None
        THEN Exception_str(self) \o ": " \o self.response[1].reason
        ELSE Exception_str(self))

APIError_str_drops_explanation(self) ==
    IF self.response # None
    THEN APIError_decorate(self, self.response[1].reason)
    ELSE Exception_str(self)

APIError_str(self) ==
    APIError_decorate(self,
        IF self.response # None THEN self.response[1].reason ELSE Exception_str(self))

APIError_init(message, response, explanation) ==
    /\ apiErr' = Some([args |-> <<message>>, response |-> response,
                       explanation |-> explanation])
    /\ ctor' = [cls |-> "APIError", message |-> message, response |-> response,
                explanation |-> explanation]
    /\ out' = [op |-> "APIError.__init__", value |-> None]
    /\ UNCHANGED <<containerErr, connErr, renders>>

Call_str_rewrites_reason ==
    /\ apiErr # None
    /\ Len(renders) < MaxRenders
    /\ renders' = Append(renders, APIError_str(apiErr[1]))
    /\ out' = [op |-> "APIError.__str__", value |-> APIError_str(apiErr[1])]
    /\ apiErr' = IF apiErr[1].response = None THEN apiErr
                 ELSE Some([apiErr[1] EXCEPT !.response =
                        Some([@[1] EXCEPT !.reason = APIError_str(apiErr[1])])])
    /\ UNCHANGED <<containerErr, connErr, ctor>>

Call_str ==
    /\ apiErr # None
    /\ Len(renders) < MaxRenders
    /\ renders' = Append(renders, APIError_str(apiErr[1]))
    /\ out' = [op |-> "APIError.__str__", value |-> APIError_str(apiErr[1])]
    /\ UNCHANGED <<apiErr, containerErr, connErr, ctor>>

Call_status_code ==
    /\ apiErr # None
    /\ out' = [op |-> "status_code", value |-> status_code(apiErr[1])]
    /\ UNCHANGED <<apiErr, containerErr, connErr, ctor, renders>>

Call_is_error ==
    /\ apiErr # None
    /\ out' = [op |-> "is_error", value |-> is_error(apiErr[1])]
    /\ UNCHANGED <<apiErr, containerErr, connErr, ctor, renders>>

Call_is_client_error ==
    /\ apiErr # None
    /\ out' = [op |-> "is_client_error", value |-> is_client_error(apiErr[1])]
    /\ UNCHANGED <<apiErr, containerErr, connErr, ctor, renders>>

Call_is_server_error ==
    /\ apiErr # None
    /\ out' = [op |-> "is_server_error", value |-> is_server_error(apiErr[1])]
    /\ UNCHANGED <<apiErr, containerErr, connErr, ctor, renders>>

\* The owner of the response object assigns its status_code.
Response_set_status_code(c) ==
    /\ apiErr # None
    /\ apiErr[1].response # None
    /\ apiErr' = Some([apiErr[1] EXCEPT !.response = Some([@[1] EXCEPT !.status_code = c])])
    /\ out' = [op |-> "response.status_code=", value |-> None]
    /\ renders' = <<>>
    /\ UNCHANGED <<containerErr, connErr, ctor>>

\* The owner of the response object assigns its reason.
Response_set_reason(r) ==
    /\ apiErr # None
    /\ apiErr[1].response # None
    /\ apiErr' = Some([apiErr[1] EXCEPT !.response = Some([@[1] EXCEPT !.reason = r])])
    /\ out' = [op |-> "response.reason=", value |-> None]
    /\ renders' = <<>>
    /\ UNCHANGED <<containerErr, connErr, ctor>>

\* ---------------------------------------------------------------- ContainerError
\* The message composed by ContainerError.__init__.
ContainerError_msg(exit_status, command, image, stderr) ==
    LET err == IF stderr # None THEN ": " \o stderr[1] ELSE ""
    IN  "Command '" \o command \o "' in image '" \o image
            \o "' returned non-zero exit status " \o IntToStr(exit_status) \o err

ContainerError_init(container, exit_status, command, image, stderr) ==
    /\ containerErr' = Some([args |-> <<ContainerError_msg(exit_status, command, image, stderr)>>,
                             container |-> container, exit_status |-> exit_status,
                             command |-> command, image |-> image, stderr |-> stderr])
    /\ ctor' = [cls |-> "ContainerError", container |-> container,
                exit_status |-> exit_status, command |-> command, image |-> image,
                stderr |-> stderr]
    /\ out' = [op |-> "ContainerError.__init__", value |-> None]
    /\ UNCHANGED <<apiErr, connErr, renders>>

ContainerError_str_from_fields(self) ==
    ContainerError_msg(self.exit_status, self.command, self.image, self.stderr)

\* ContainerError does not override __str__: it is the message given to
\* super().__init__.
ContainerError_str(self) == Exception_str(self)

Call_ContainerError_str ==
    /\ containerErr # None
    /\ out' = [op |-> "ContainerError.__str__", value |-> ContainerError_str(containerErr[1])]
    /\ UNCHANGED <<apiErr, containerErr, connErr, ctor, renders>>

\* The fields are plain attributes: their holder may assign them.
ContainerError_set_exit_status(v) ==
    /\ containerErr # None
    /\ containerErr' = Some([containerErr[1] EXCEPT !.exit_status = v])
    /\ out' = [op |-> "exit_status=", value |-> None]
    /\ UNCHANGED <<apiErr, connErr, ctor, renders>>

ContainerError_set_command(v) ==
    /\ containerErr # None
    /\ containerErr' = Some([containerErr[1] EXCEPT !.command = v])
    /\ out' = [op |-> "command=", value |-> None]
    /\ UNCHANGED <<apiErr, connErr, ctor, renders>>

ContainerError_set_image(v) ==
    /\ containerErr # None
    /\ containerErr' = Some([containerErr[1] EXCEPT !.image = v])
    /\ out' = [op |-> "image=", value |-> None]
    /\ UNCHANGED <<apiErr, connErr, ctor, renders>>

ContainerError_set_stderr(v) ==
    /\ containerErr # None
    /\ containerErr' = Some([containerErr[1] EXCEPT !.stderr = v])
    /\ out' = [op |-> "stderr=", value |-> None]
    /\ UNCHANGED <<apiErr, connErr, ctor, renders>>

\* Covers both an assignment of the field and a change of the container's own state.
ContainerError_set_container(v) ==
    /\ containerErr # None
    /\ containerErr' = Some([containerErr[1] EXCEPT !.container = v])
    /\ out' = [op |-> "container=", value |-> None]
    /\ UNCHANGED <<apiErr, connErr, ctor, renders>>

\* ---------------------------------------------------------------- PodmanConnectionError
RelevantNames == {"DOCKER_HOST", "CONTAINER_HOST", "DOCKER_TLS_VERIFY",
                  "CONTAINER_TLS_VERIFY", "DOCKER_CERT_PATH", "CONTAINER_CERT_PATH"}

relevant_vars_unfiltered(environment) == environment

\* The dict comprehension: the items whose key is in the tuple, in order.
relevant_vars(environment) ==
    SelectSeq(environment, LAMBDA kv : kv[1] \in RelevantNames)

PodmanConnectionError_init(message, environment, host, original_error) ==
    /\ connErr' = Some([args |-> <<message>>, environment |-> environment,
                        host |-> host, original_error |-> original_error])
    /\ ctor' = [cls |-> "PodmanConnectionError", message |-> message,
                environment |-> environment, host |-> host,
                original_error |-> original_error]
    /\ out' = [op |-> "PodmanConnectionError.__init__", value |-> None]
    /\ UNCHANGED <<apiErr, containerErr, renders>>

\* The parts __str__ appends for host, environment and original_error.
host_part(self) ==
    IF truthy_str(self.host) THEN <<"Host: " \o self.host[1]>> ELSE <<>>

environment_part_one_segment(self) ==
    IF truthy_dict(self.environment)
    THEN LET rv == relevant_vars(self.environment[1])
         IN  IF rv # <<>>
             THEN <<Join("\n", <<"Environment:">> \o
                        [i \in 1..Len(rv) |-> "  " \o rv[i][1] \o "=" \o rv[i][2]])>>
             ELSE <<>>
    ELSE <<>>

environment_part(self) ==
    IF truthy_dict(self.environment)
    THEN LET rv == relevant_vars(self.environment[1])
         IN  IF rv # <<>>
             THEN <<"Environment:">> \o
                    [i \in 1..Len(rv) |-> "  " \o rv[i][1] \o "=" \o rv[i][2]]
             ELSE <<>>
    ELSE <<>>

cause_part(self) ==
    IF truthy_obj(self.original_error)
    THEN <<"Caused by: " \o Exception_str(self.original_error[1])>>
    ELSE <<>>

PodmanConnectionError_msg_cause_first(self) ==
    <<Exception_str(self)>> \o cause_part(self) \o host_part(self) \o environment_part(self)

\* The list msg at the return of __str__.
PodmanConnectionError_msg(self) ==
    <<Exception_str(self)>> \o host_part(self) \o environment_part(self) \o cause_part(self)

PodmanConnectionError_str(self) == Join(" | ", PodmanConnectionError_msg(self))

Call_PodmanConnectionError_str ==
    /\ connErr # None
    /\ out' = [op |-> "PodmanConnectionError.__str__",
               value |-> PodmanConnectionError_str(connErr[1])]
    /\ UNCHANGED <<apiErr, containerErr, connErr, ctor, renders>>

\* ---------------------------------------------------------------- specification
Init ==
    /\ apiErr = None
    /\ containerErr = None
    /\ connErr = None
    /\ ctor = [cls |-> "none"]
    /\ renders = <<>>
    /\ out = [op |-> "none", value |-> None]

Next ==
    \/ /\ NothingConstructed
       /\ \E m \in Messages, r \in {None} \cup {Some(x) : x \in Responses}, e \in Explanations :
             APIError_init(m, r, e)
    \/ /\ NothingConstructed
       /\ \E c \in Containers, x \in ExitStatuses, cmd \in Commands, i \in Images, e \in Stderrs :
             ContainerError_init(c, x, cmd, i, e)
    \/ /\ NothingConstructed
       /\ \E m \in ConnMessages, env \in Environments, h \in Hosts, oe \in OriginalErrors :
             PodmanConnectionError_init(m, env, h, oe)
    \/ Call_str
    \/ Call_status_code
    \/ Call_is_error
    \/ Call_is_client_error
    \/ Call_is_server_error
    \/ \E c \in StatusCodes : Response_set_status_code(c)
    \/ \E r \in Reasons : Response_set_reason(r)
    \/ Call_ContainerError_str
    \/ \E v \in ExitStatuses : ContainerError_set_exit_status(v)
    \/ \E v \in Commands : ContainerError_set_command(v)
    \/ \E v \in Images : ContainerError_set_image(v)
    \/ \E v \in Stderrs : ContainerError_set_stderr(v)
    \/ \E v \in Containers : ContainerError_set_container(v)
    \/ Call_PodmanConnectionError_str

Spec == Init /\ [][Next]_vars

\* ---------------------------------------------------------------- claims: APIError
\* The response the error refers to now, and its status code and reason.
HasResponse == apiErr # None /\ apiErr[1].response # None
CurStatus == apiErr[1].response[1].status_code
CurReason == apiErr[1].response[1].reason

InClientRange(c) == 400 <= c /\ c < 500
InServerRange(c) == 500 <= c /\ c < 600

\* The status prefix the specification prescribes for status code c.
ExpectedPrefix(c) ==
    IF InClientRange(c) THEN IntToStr(c) \o " Client Error: "
    ELSE IF InServerRange(c) THEN IntToStr(c) \o " Server Error: "
    ELSE ""

StartsWith(s, p) == Len(p) <= Len(s) /\ SubSeq(s, 1, Len(p)) = p

\* C1: is_client_error() is true iff the response's status code c satisfies
\* 400 <= c < 500, is_server_error() iff 500 <= c < 600, is_error() iff one of
\* the two; all three are false for c < 400, c >= 600 and without a response.
C1_StatusClassification ==
    /\ out.op = "is_client_error" =>
          out.value = (HasResponse /\ InClientRange(CurStatus))
    /\ out.op = "is_server_error" =>
          out.value = (HasResponse /\ InServerRange(CurStatus))
    /\ out.op = "is_error" =>
          out.value = (HasResponse /\ (InClientRange(CurStatus) \/ InServerRange(CurStatus)))
    /\ out.op \in {"is_client_error", "is_server_error", "is_error"}
          /\ (~HasResponse \/ CurStatus < 400 \/ CurStatus >= 600)
          => out.value = FALSE

C1_Witness ==
    /\ out.op = "is_server_error"
    /\ out.value = FALSE
    /\ HasResponse
    /\ CurStatus = 499

\* C2 as stated: with a response, the rendering is the status prefix, then
\* response.reason, then " (explanation)" exactly when an explanation is present
\* (is not None); the constructor's message takes no part.
C2_Original ==
    out.op = "APIError.__str__" /\ HasResponse =>
        out.value = ExpectedPrefix(CurStatus) \o CurReason \o
            (IF apiErr[1].explanation # None
             THEN " (" \o apiErr[1].explanation[1] \o ")" ELSE "")

\* C2 amended: with a response, the rendering is the status prefix, then
\* response.reason, then " (explanation)" exactly when the explanation is
\* present and not the empty string; the constructor's message takes no part.
C2_RenderWithResponse ==
    out.op = "APIError.__str__" /\ HasResponse =>
        out.value = ExpectedPrefix(CurStatus) \o CurReason \o
            (IF apiErr[1].explanation # None /\ apiErr[1].explanation[1] # ""
             THEN " (" \o apiErr[1].explanation[1] \o ")" ELSE "")

C2_Witness ==
    /\ out.op = "APIError.__str__"
    /\ HasResponse
    /\ ctor.message = "boom"
    /\ out.value = "404 Client Error: Not Found (no such container)"

\* C3 as stated: an error constructed with response=None renders exactly as its
\* message, whatever the other constructor arguments are.
C3_Original ==
    out.op = "APIError.__str__" /\ ctor.response = None =>
        out.value = ctor.message

\* C3 amended: an error constructed with response=None renders as its message
\* with no status prefix, followed by " (explanation)" when a non-empty
\* explanation was given; it renders exactly as its message when the
\* explanation is None or empty.
C3_RenderWithoutResponse ==
    out.op = "APIError.__str__" /\ ctor.response = None =>
        out.value = ctor.message \o
            (IF ctor.explanation # None /\ ctor.explanation[1] # ""
             THEN " (" \o ctor.explanation[1] \o ")" ELSE "")

C3_Witness ==
    /\ out.op = "APIError.__str__"
    /\ ctor.response = None
    /\ ctor.explanation = Some("no such container")
    /\ out.value = "boom (no such container)"

\* C9: status_code, is_client_error(), is_server_error() and the prefix of the
\* rendering follow the response's current status code, not the one it had
\* when the error was constructed; without a response status_code is None.
C9_StatusCodeNotCached ==
    /\ out.op = "status_code" =>
          out.value = (IF HasResponse THEN Some(CurStatus) ELSE None)
    /\ out.op = "is_client_error" /\ HasResponse =>
          out.value = InClientRange(CurStatus)
    /\ out.op = "is_server_error" /\ HasResponse =>
          out.value = InServerRange(CurStatus)
    /\ out.op = "APIError.__str__" /\ HasResponse =>
          StartsWith(out.value, ExpectedPrefix(CurStatus) \o CurReason)

C9_Witness ==
    /\ out.op = "status_code"
    /\ HasResponse
    /\ ctor.response[1].status_code = 404
    /\ CurStatus = 503
    /\ out.value = Some(503)

AllEqual(seq) == \A i, j \in 1..Len(seq) : seq[i] = seq[j]

\* C10: a step in which __str__ is called leaves the error (its message,
\* explanation and response, and the response's status code and reason)
\* unchanged, and the __str__ calls made since the last change of the response
\* all returned the same string.
C10_RenderIsPure ==
    [][ /\ out'.op = "APIError.__str__" => apiErr' = apiErr
        /\ AllEqual(renders') ]_vars

C10_Witness ==
    /\ out.op = "APIError.__str__"
    /\ HasResponse
    /\ Len(renders) = 2
    /\ renders[2] = "503 Server Error: Service Unavailable"

\* ---------------------------------------------------------------- claims: ContainerError
\* C7: an error object returned by the ContainerError constructor never has
\* exit_status 0.
C7_ExitStatusNonZero ==
    out.op = "ContainerError.__init__" => containerErr[1].exit_status # 0

\* C8: the rendering is "Command '{command}' in image '{image}' returned
\* non-zero exit status {exit_status}", followed by ": {stderr}" iff stderr was
\* given, of the constructor's arguments, whatever the stored fields container,
\* exit_status, command, image and stderr have been changed to since.
C8_RenderFixedAtConstruction ==
    out.op = "ContainerError.__str__" =>
        out.value = "Command '" \o ctor.command \o "' in image '" \o ctor.image
                        \o "' returned non-zero exit status " \o IntToStr(ctor.exit_status)
                        \o (IF ctor.stderr # None THEN ": " \o ctor.stderr[1] ELSE "")

C8_Witness ==
    /\ out.op = "ContainerError.__str__"
    /\ out.value = "Command 'echo hi' in image 'alpine' returned non-zero exit status 1: boom"
    /\ containerErr[1].exit_status = 137
    /\ containerErr[1].command = "ls"
    /\ containerErr[1].image = "busybox"
    /\ containerErr[1].stderr = None
    /\ containerErr[1].container # ctor.container

\* ---------------------------------------------------------------- claims: PodmanConnectionError
\* The names the specification allows in a rendering.
AllowedNames == {"DOCKER_HOST", "DOCKER_TLS_VERIFY", "DOCKER_CERT_PATH",
                 "CONTAINER_HOST", "CONTAINER_TLS_VERIFY", "CONTAINER_CERT_PATH"}

\* The items of the environment mapping the constructor was given.
CtorEnv == IF ctor.environment = None THEN <<>> ELSE ctor.environment[1]

EnvLine(kv) == "  " \o kv[1] \o "=" \o kv[2]

\* The number of (possibly overlapping) occurrences of sub in s.
Count(s, sub) ==
    Cardinality({i \in 1..(Len(s) - Len(sub) + 1) : SubSeq(s, i, i + Len(sub) - 1) = sub})

\* C4: in a rendering, an item of the environment mapping appears (as the
\* segment "  {key}={value}") exactly once when its key is one of the six
\* allowed names and never otherwise, the items appear in the mapping's order,
\* every indented segment is such an item, and the segment "Environment:"
\* appears (once, before the items) iff some item has an allowed name.
C4_EnvironmentFiltered ==
    out.op = "PodmanConnectionError.__str__" =>
        LET msg == PodmanConnectionError_msg(connErr[1])
            At(line) == {j \in 1..Len(msg) : msg[j] = line}
            Kept == {i \in 1..Len(CtorEnv) : CtorEnv[i][1] \in AllowedNames}
        IN  /\ out.value = Join(" | ", msg)
            /\ \A i \in 1..Len(CtorEnv) :
                  /\ Cardinality(At(EnvLine(CtorEnv[i]))) = (IF i \in Kept THEN 1 ELSE 0)
                  /\ i \notin Kept => Count(out.value, CtorEnv[i][1] \o "=") = 0
            /\ \A i, j \in Kept : i < j =>
                  \A a \in At(EnvLine(CtorEnv[i])), b \in At(EnvLine(CtorEnv[j])) : a < b
            /\ \A j \in 1..Len(msg) : StartsWith(msg[j], "  ") =>
                  \E i \in Kept : msg[j] = EnvLine(CtorEnv[i])
            /\ Cardinality(At("Environment:")) = (IF Kept # {} THEN 1 ELSE 0)
            /\ \A h \in At("Environment:"), i \in Kept :
                  \A a \in At(EnvLine(CtorEnv[i])) : h < a

C4_Witness ==
    /\ out.op = "PodmanConnectionError.__str__"
    /\ ctor.environment = Some(<< <<"UNRELATED", "y">>, <<"CONTAINER_HOST", "tcp://x">> >>)
    /\ ctor.host = None
    /\ ctor.original_error = None
    /\ out.value = "cannot connect | Environment: |   CONTAINER_HOST=tcp://x"

\* The segments for the environment: the header and one line per allowed item.
ExpectedEnvSegments ==
    LET kept == SelectSeq(CtorEnv, LAMBDA kv : kv[1] \in AllowedNames)
    IN  IF kept = <<>> THEN <<>>
        ELSE <<"Environment:">> \o [i \in 1..Len(kept) |-> EnvLine(kept[i])]

ExpectedCauseSegments ==
    IF ctor.original_error = None THEN <<>>
    ELSE <<"Caused by: " \o ctor.original_error[1].args[1]>>

\* C5 as stated: the rendering is the message, then "Host: {host}" if host is
\* present (is not None), then the environment block if a variable survives,
\* then "Caused by: ..." if original_error is present, joined with " | ".
C5_Original ==
    out.op = "PodmanConnectionError.__str__" =>
        out.value = Join(" | ",
            <<ctor.message>>
            \o (IF ctor.host # None THEN <<"Host: " \o ctor.host[1]>> ELSE <<>>)
            \o ExpectedEnvSegments
            \o ExpectedCauseSegments)

\* C5 amended: the rendering is the message, then "Host: {host}" if host is
\* present and not the empty string, then the environment block if a variable
\* survives, then "Caused by: ..." if original_error is present, joined with
\* " | "; the message is always the first part.
C5_SegmentOrder ==
    out.op = "PodmanConnectionError.__str__" =>
        out.value = Join(" | ",
            <<ctor.message>>
            \o (IF ctor.host # None /\ ctor.host[1] # ""
                THEN <<"Host: " \o ctor.host[1]>> ELSE <<>>)
            \o ExpectedEnvSegments
            \o ExpectedCauseSegments)

C5_Witness ==
    /\ out.op = "PodmanConnectionError.__str__"
    /\ out.value = "cannot connect | Host: unix:///var/run/podman.sock | Environment: |   DOCKER_TLS_VERIFY=y | Caused by: Connection refused"

\* The constructor arguments of the example.
IsExample ==
    /\ ctor.cls = "PodmanConnectionError"
    /\ ctor.message = "cannot connect"
    /\ ctor.host = Some("unix:///var/run/podman.sock")
    /\ ctor.environment = Some(<< <<"DOCKER_HOST", "tcp://x">>, <<"UNRELATED", "y">> >>)
    /\ ctor.original_error = None

\* C6 as stated: the example renders as three segments joined by " | ", the
\* third being "Environment:", a newline and "  DOCKER_HOST=tcp://x"; " | "
\* occurs twice.
C6_Original ==
    out.op = "PodmanConnectionError.__str__" /\ IsExample =>
        /\ out.value = Join(" | ", <<"cannot connect", "Host: unix:///var/run/podman.sock",
                                     "Environment:\n  DOCKER_HOST=tcp://x">>)
        /\ Count(out.value, " | ") = 2

\* C6 amended: the example renders as four segments joined by " | ":
\* "cannot connect", "Host: unix:///var/run/podman.sock", "Environment:" and
\* "  DOCKER_HOST=tcp://x"; " | " occurs three times, there is no newline, and
\* UNRELATED does not occur.
C6_ExampleRendering ==
    out.op = "PodmanConnectionError.__str__" /\ IsExample =>
        /\ out.value = "cannot connect | Host: unix:///var/run/podman.sock | Environment: |   DOCKER_HOST=tcp://x"
        /\ Count(out.value, " | ") = 3
        /\ Count(out.value, "\n") = 0
        /\ Count(out.value, "UNRELATED") = 0

C6_Witness ==
    /\ out.op = "PodmanConnectionError.__str__"
    /\ IsExample
    /\ Count(out.value, "DOCKER_HOST=tcp://x") = 1
====
